---- MODULE Spec2Model ----
(***************************************************************************)
(* Model of the WhatsApp integration layer of fyimail/whatsapp-mcp2.       *)
(*                                                                         *)
(* Spec / FairSpec: the integration module src/src/whatsapp-integration.js *)
(* (revision with onClientReady, lines 128-280) as it is wired by          *)
(* src/src/server.js (lines 8-31): the module-level session variables, the *)
(* client instances it creates, their registered event handlers, the       *)
(* pending setTimeout timers and the promise of every                      *)
(* initializeWhatsAppClient call.                                          *)
(***************************************************************************)
EXTENDS Integers, Sequences, FiniteSets, TLC

(* ---------------------------------------------------------------------- *)
(* Bounds of the model                                                     *)
(* ---------------------------------------------------------------------- *)

\* The environment stops causing re-initializations (disconnected events,
\* rejected initialize() calls) once this many client instances exist or
\* are already due to be created by a pending timer.
MaxClients == 3

\* Callbacks registered with onClientReady, server.js's own included.
MaxCallbacks == 3

\* Length of the chat collections the client's data sources return.
MaxChats == 2

(* ---------------------------------------------------------------------- *)
(* Program constants                                                       *)
(* ---------------------------------------------------------------------- *)

StartupDelay == 2000
DisconnectRetryDelay == 5000
ErrorRetryDelay == 10000
KeyLength == 64
Radix == 36
TimeoutBudget == 15000
MillisPerSecond == 1000

Delays == {StartupDelay, DisconnectRetryDelay, ErrorRetryDelay}

(* ---------------------------------------------------------------------- *)
(* Values                                                                  *)
(* ---------------------------------------------------------------------- *)

\* JavaScript null for the string-valued session variables, for the API key
\* (a string, modelled as a sequence of characters) and for client handles.
Null == "null"
NullKey == << >>
NoClient == 0

\* Payloads the external client delivers with its events.
QrPayloads == {"XYZ"}
ErrorMessages == {"e1", "e2"}

\* Outcomes of (Math.random() * 36 | 0) the model draws from; one API key
\* takes KeyLength draws, the model draws the same digit KeyLength times.
RandomDigits == {0, Radix - 1}
RandomDraws == {[i \in 1..KeyLength |-> d] : d \in RandomDigits}

Base36 ==
  << "0", "1", "2", "3", "4", "5", "6", "7", "8", "9", "a", "b", "c", "d", "e",
     "f", "g", "h", "i", "j", "k", "l", "m", "n", "o", "p", "q", "r", "s", "t",
     "u", "v", "w", "x", "y", "z" >>

Alnum == {Base36[i] : i \in 1..Len(Base36)}

\* Number.prototype.toString(36) of one digit 0..35.
ToString36(d) == Base36[d + 1]

IsAlnum(ch) == ch \in Alnum

Min(a, b) == IF a <= b THEN a ELSE b

\* Variant: the filter keeps letters only (/[^a-z]/g).
GenerateApiKey_LettersOnly(draws) ==
  LET joined == [i \in 1..KeyLength |-> ToString36(draws[i])]
      stripped == SelectSeq(joined, LAMBDA ch : ch \in {Base36[i] : i \in 11..Len(Base36)})
  IN SubSeq(stripped, 1, Min(KeyLength, Len(stripped)))

\* generateApiKey(): 64 random base-36 digits, joined, stripped of every
\* character outside [a-z0-9], cut to 64 characters.
GenerateApiKey(draws) ==
  LET joined == [i \in 1..KeyLength |-> ToString36(draws[i])]
      stripped == SelectSeq(joined, IsAlnum)
  IN SubSeq(stripped, 1, Min(KeyLength, Len(stripped)))

(* ---------------------------------------------------------------------- *)
(* Chat records and HTTP requests                                          *)
(* ---------------------------------------------------------------------- *)

\* An optional JavaScript property: Absent (undefined) or Some(value).
Absent == << >>
Some(x) == << x >>
IsSome(o) == o # Absent
Get(o) == o[1]

\* JavaScript truthiness of an optional number and of an optional string.
TruthyNumber(o) == IsSome(o) /\ Get(o) # 0
TruthyString(o) == IsSome(o) /\ Get(o) # ""

\* The id object of a record: { _serialized: s }.
IdObject(s) == Some([serialized |-> s])

\* Raw chat records the data sources of the client may return: id is the
\* id object (Absent: the record has none), timestamp is in seconds.
ChatRecords ==
  { [id |-> IdObject(Some("c1")), name |-> Some("Alice"), isGroup |-> FALSE,
     timestamp |-> Some(5), unreadCount |-> Some(2)],
    [id |-> IdObject(Some("c2")), name |-> Absent, isGroup |-> TRUE,
     timestamp |-> Absent, unreadCount |-> Absent],
    [id |-> Absent, name |-> Some("Dan"), isGroup |-> FALSE,
     timestamp |-> Some(9), unreadCount |-> Some(1)] }

\* Timestamps, in seconds, of the records the normalization is checked on.
Timestamps == {0, 1, 5}

\* Records that differ in their timestamp only: none, or one of Timestamps.
TimestampRecords ==
  { [id |-> IdObject(Some("c1")), name |-> Some("Alice"), isGroup |-> FALSE,
     timestamp |-> t, unreadCount |-> Some(2)] : t \in {Absent} \cup {Some(n) : n \in Timestamps} }

\* The collections a data source may return, the empty one included.
ChatLists == UNION {[1..n -> ChatRecords] : n \in 0..MaxChats}

\* Values of Date.now() / 1000 the model draws from.
ClockSeconds == {1700}

\* The mock chat of the /api/chats fallback.
MockChat(now) ==
  [id |-> IdObject(Some("mock-chat-id-1")), name |-> Some("Mock Chat (Fallback)"),
   isGroup |-> FALSE, timestamp |-> Some(now), unreadCount |-> Some(0)]

\* new Date(ms).toISOString(): the instant, in milliseconds since the epoch.
ToISOString(ms) == [iso |-> ms]

\* The normalization of one chat in the .then of /api/chats; reading
\* chat.id._serialized throws a TypeError when chat.id is undefined.
FormatChatThrows(chat) == ~IsSome(chat.id)

FormatChat(chat) ==
  [ id |-> Get(chat.id).serialized,
    name |-> IF TruthyString(chat.name) THEN Get(chat.name) ELSE "",
    isGroup |-> chat.isGroup,
    timestamp |-> IF TruthyNumber(chat.timestamp)
                  THEN Some(ToISOString(Get(chat.timestamp) * MillisPerSecond))
                  ELSE Absent,
    unreadCount |-> IF TruthyNumber(chat.unreadCount) THEN Get(chat.unreadCount) ELSE 0 ]

\* chats.map(chat => ({...})): throws as soon as one element throws.
FormatChatsThrows(chats) == \E i \in 1..Len(chats) : FormatChatThrows(chats[i])

FormatChats(chats) == [i \in 1..Len(chats) |-> FormatChat(chats[i])]

\* The id the page reports for a chat (c.id): the serialized id of the
\* record drawn for it, undefined when the record has none.
PageId(chat) == IF IsSome(chat.id) THEN Get(chat.id).serialized ELSE Absent

\* The mapping of the records the page evaluation yields:
\* ({ id: { _serialized: chat.id }, name: chat.name || '', ... }); the page
\* has already replaced a falsy unreadCount by 0 for /api/chats, and reports
\* no unreadCount for /api/recent-message.
MapEvaluated(endpoint, chat) ==
  [ id |-> IdObject(PageId(chat)),
    name |-> Some(IF TruthyString(chat.name) THEN Get(chat.name) ELSE ""),
    isGroup |-> chat.isGroup,
    timestamp |-> chat.timestamp,
    unreadCount |-> IF endpoint # "chats" THEN Absent
                    ELSE Some(IF TruthyNumber(chat.unreadCount) THEN Get(chat.unreadCount) ELSE 0) ]

MapEvaluatedChats(endpoint, chats) ==
  [i \in 1..Len(chats) |-> MapEvaluated(endpoint, chats[i])]

\* chats.sort((a, b) => (b.timestamp || 0) - (a.timestamp || 0)): a stable
\* sort, newest first.
SortKey(chat) == IF TruthyNumber(chat.timestamp) THEN Get(chat.timestamp) ELSE 0

\* Variant: the comparator returns timeA - timeB (oldest first).
InsertByTime_OldestFirst(sorted, chat) ==
  LET k == Cardinality({i \in 1..Len(sorted) : SortKey(sorted[i]) <= SortKey(chat)})
  IN SubSeq(sorted, 1, k) \o << chat >> \o SubSeq(sorted, k + 1, Len(sorted))

InsertByTime(sorted, chat) ==
  LET k == Cardinality({i \in 1..Len(sorted) : SortKey(sorted[i]) >= SortKey(chat)})
  IN SubSeq(sorted, 1, k) \o << chat >> \o SubSeq(sorted, k + 1, Len(sorted))

RECURSIVE SortChats(_)
SortChats(chats) ==
  IF Len(chats) = 0 THEN << >>
  ELSE InsertByTime(SortChats(SubSeq(chats, 1, Len(chats) - 1)), chats[Len(chats)])

\* !recentChat.id || !recentChat.id._serialized
HasSerializedId(chat) == IsSome(chat.id) /\ TruthyString(Get(chat.id).serialized)

\* What chat.fetchMessages({ limit: 1 }) can settle with: an exception, no
\* message, one message, or one message without an id object.
FetchOutcomes == {"throws", "empty", "message", "malformed"}

\* Message records chat.fetchMessages may return (timestamp in seconds).
MessageRecords ==
  { [id |-> IdObject(Some("m1")), body |-> Some("hi"), timestamp |-> Some(7),
     from |-> Some("c1"), fromMe |-> FALSE, type |-> Absent],
    [id |-> Absent, body |-> Absent, timestamp |-> Absent,
     from |-> Absent, fromMe |-> TRUE, type |-> Some("image")] }

\* The message lists it may resolve to: empty, or one message.
MessageLists == {<< >>} \cup {<< m >> : m \in MessageRecords}

\* The normalization of one message in /api/messages; reading
\* msg.id._serialized throws a TypeError when msg.id is undefined.
FormatMessageThrows(msg) == ~IsSome(msg.id)

FormatMessage(msg) ==
  [ id |-> Get(msg.id).serialized,
    body |-> IF TruthyString(msg.body) THEN Get(msg.body) ELSE "",
    timestamp |-> IF TruthyNumber(msg.timestamp)
                  THEN Some(ToISOString(Get(msg.timestamp) * MillisPerSecond))
                  ELSE Absent,
    from |-> IF TruthyString(msg.from) THEN Get(msg.from) ELSE "",
    fromMe |-> msg.fromMe,
    type |-> IF TruthyString(msg.type) THEN Get(msg.type) ELSE "chat" ]

FormatMessagesThrows(messages) ==
  \E i \in 1..Len(messages) : FormatMessageThrows(messages[i])

FormatMessages(messages) == [i \in 1..Len(messages) |-> FormatMessage(messages[i])]

\* Bodies a caller may post to /api/send: text that is not JSON (or is the
\* JSON null), or an object whose to and message may be missing or empty.
SendBodies ==
  {[json |-> FALSE, to |-> Absent, message |-> Absent]} \cup
  {[json |-> TRUE, to |-> t, message |-> m] :
     t \in {Absent, Some(""), Some("123")}, m \in {Absent, Some("hello")}}

\* Response bodies.
NoBody == [kind |-> "none"]
ErrorBody(msg) == [kind |-> "error", success |-> FALSE, error |-> msg]
ChatsBody(chats) == [kind |-> "chats", success |-> TRUE, chats |-> chats]
StatusBody(status) == [kind |-> "status", status |-> status.status, error |-> status.error]
RecentBody(result, chatId) == [kind |-> "recent", result |-> result, chatId |-> chatId]

NotReadyMessage == "WhatsApp not ready"

MessagesBody(messages) == [kind |-> "messages", success |-> TRUE, messages |-> messages]
SentBody == [kind |-> "sent", success |-> TRUE]
NotReadyBody(status) ==
  [kind |-> "error", success |-> FALSE, error |-> NotReadyMessage, status |-> status]
ApiStatusBody(status, now) ==
  [kind |-> "api status", success |-> TRUE, connected |-> status.status = "ready",
   status |-> status.status, error |-> status.error,
   timestamp |-> ToISOString(now * MillisPerSecond)]
\* main.ts: the whatsapp field of the /health and /status bodies.
WhatsappField(st) ==
  IF st.clientReady THEN "ready"
  ELSE IF st.whatsappError # Null THEN "error"
  ELSE IF st.whatsappInitializing THEN "initializing"
  ELSE "not_started"

\* main.ts: the body of /health when the state object is st.
ExpressHealthBody(st, now) ==
  [kind |-> "health", status |-> "ok", server |-> "running",
   whatsappStarted |-> st.whatsappInitStarted, whatsapp |-> WhatsappField(st),
   timestamp |-> ToISOString(now * MillisPerSecond)]

\* main.ts: the body of /status when the state object is st.
ExpressStatusBody(st, now) ==
  [kind |-> "status", server |-> "running",
   whatsappStarted |-> st.whatsappInitStarted, whatsapp |-> WhatsappField(st),
   error |-> st.whatsappError,
   timestamp |-> ToISOString(now * MillisPerSecond)]

\* main.ts, REST revision: the bodies of /api/chats that are not chats.
ClientNotReadyBody(st) ==
  [kind |-> "error", status |-> "error", message |-> "WhatsApp client not ready",
   whatsappStatus |-> IF st.clientReady THEN "ready"
                      ELSE IF st.whatsappError # Null THEN "error" ELSE "initializing"]
ClientNotAvailableBody ==
  [kind |-> "error", status |-> "error", message |-> "WhatsApp client not available"]

\* main.ts: the bodies of /start-whatsapp.
StartedBody == [kind |-> "start", status |-> "WhatsApp initialization started"]
AlreadyStartedBody(st) ==
  [kind |-> "start", status |-> "WhatsApp initialization already started",
   clientReady |-> st.clientReady, error |-> st.whatsappError]

HealthBody(now) ==
  [kind |-> "health", status |-> "ok", timestamp |-> ToISOString(now * MillisPerSecond)]

InvalidKeyMessage == "Invalid API key"
InvalidOrMissingKeyMessage == "Invalid or missing API key"
MissingChatIdMessage == "Missing chat ID in URL"
ChatNotFoundMessage == "Chat not found"
MissingFieldsMessage == "Missing required fields: to, message"
InvalidJsonMessage == "Invalid JSON in request body"
CannotSendMessage == "Cannot send message"
ClientErrorMessage == "client error"
NullHandleMessage == "Cannot read properties of null (reading 'getChatById')"
NoClientMessage == "WhatsApp client not properly initialized"
TimeoutMessage == "Request timed out after 15 seconds"
TypeErrorMessage == "Cannot read properties of undefined (reading '_serialized')"

\* A key a caller may present that the server never issued.
WrongKey == << "w", "r", "o", "n", "g" >>

\* The prefix 'Bearer ' of an authorization header, as one element.
Bearer == << "Bearer " >>

\* The credentials of a request: its api_key (or apiKey) query parameter
\* and its x-api-key and authorization headers, each a string (NullKey:
\* not present).
PresentableKeys == {NullKey, WrongKey, GenerateApiKey([i \in 1..KeyLength |-> 0])}

Credentials ==
  [ query : PresentableKeys,
    xApiKey : PresentableKeys,
    authorization : PresentableKeys \cup {Bearer \o k : k \in PresentableKeys} ]

\* headerApiKey.replace('Bearer ', ''): the first occurrence is removed.
RemoveBearer(header) ==
  IF \E i \in 1..Len(header) : header[i] = "Bearer "
  THEN LET i == CHOOSE i \in 1..Len(header) :
                  /\ header[i] = "Bearer "
                  /\ \A j \in 1..(i - 1) : header[j] # "Bearer "
       IN SubSeq(header, 1, i - 1) \o SubSeq(header, i + 1, Len(header))
  ELSE header

\* req.headers['x-api-key'] || req.headers['authorization']
HeaderApiKey(creds) == IF creds.xApiKey # NullKey THEN creds.xApiKey ELSE creds.authorization

\* providedApiKey of the read endpoints:
\* requestApiKey || (headerApiKey && headerApiKey.replace('Bearer ', ''))
ProvidedApiKey(creds) ==
  IF creds.query # NullKey THEN creds.query ELSE RemoveBearer(HeaderApiKey(creds))

\* providedApiKey of /api/send: headerApiKey && headerApiKey.replace('Bearer ', '')
ProvidedSendKey(creds) == RemoveBearer(HeaderApiKey(creds))

\* No request has been received yet.  chain.raw keeps the collection as
\* getChatsCustom returned it, before /api/recent-message sorts it in place
\* (observation only); raised tells that an exception other than a swallowed
\* strategy failure has been thrown while the request was handled
\* (observation only).
NoRequest ==
  [ endpoint |-> "none",
    pc |-> "idle",
    invoked |-> << >>,
    chain |-> [state |-> "none", value |-> << >>, source |-> "none", raw |-> << >>],
    timer |-> "none",
    race |-> "none",
    raised |-> FALSE,
    code |-> 0,
    body |-> NoBody,
    writes |-> 0 ]

(* ---------------------------------------------------------------------- *)
(* State                                                                   *)
(* ---------------------------------------------------------------------- *)

VARIABLES
  whatsappClient,       \* integration module: handle of the latest client
  connectionStatus,     \* integration module: lifecycle status string
  qrCodeData,           \* integration module: latest QR payload or Null
  initializationError,  \* integration module: last error message or Null
  apiKey,               \* integration module: API key or NullKey
  clientReadyCallbacks, \* integration module: registered ready callbacks
  serverClient,         \* server.js: its own whatsappClient reference
  clients,              \* per created Client: state of its initialize()
  calls,                \* per initializeWhatsAppClient call: promise state
  timers,               \* pending setTimeout(initializeWhatsAppClient, d)
  lastEvent,            \* the operation processed last (observation only)
  prevApiKey,           \* apiKey as it was before the last ready event
                        \* (observation only)
  everReady,            \* a ready event has been processed (observation only)
  delivered,            \* callback invocations made by the last ready event
                        \* or onClientReady call, and whether an exception
                        \* escaped from it (observation only)
  internalChats,        \* the client's internal _chats collection
  req,                  \* the HTTP request being handled (the position of
                        \* its fetch chain, its 15 s timer, its race and
                        \* its response)
  state                 \* main.ts: the state object of the Express server
                        \* and the promise of its client.initialize()

vars ==
  << whatsappClient, connectionStatus, qrCodeData, initializationError,
     apiKey, clientReadyCallbacks, serverClient, clients, calls, timers,
     lastEvent, prevApiKey, everReady, delivered, internalChats, req, state >>

session ==
  << whatsappClient, connectionStatus, qrCodeData, initializationError,
     apiKey, clientReadyCallbacks, serverClient >>

Statuses ==
  { "disconnected", "initializing", "qr_received", "authenticated", "ready",
    "auth_failure", "error" }

Event(type, client, arg) == [type |-> type, client |-> client, arg |-> arg]

ClientIds == 1..Len(clients)

\* Clients whose handlers are registered and whose browser session was not
\* lost by a rejected initialize(): the ones that can still emit events.
Emitting == {c \in ClientIds : clients[c] # "rejected"}

PendingTimers == timers[StartupDelay] + timers[DisconnectRetryDelay] + timers[ErrorRetryDelay]

\* setTimeout(initializeWhatsAppClient, d)
SetTimeout(d) == [timers EXCEPT ![d] = @ + 1]

\* The environment may cause one more re-initialization.
MayRetry == Len(clients) + PendingTimers < MaxClients

TypeOK ==
  /\ whatsappClient \in 0..MaxClients
  /\ connectionStatus \in Statuses
  /\ qrCodeData \in QrPayloads \cup {Null}
  /\ initializationError \in ErrorMessages \cup {Null}
  /\ apiKey = NullKey \/ (Len(apiKey) = KeyLength /\ \A i \in 1..KeyLength : apiKey[i] \in Alnum)
  /\ serverClient \in 0..MaxClients
  /\ Len(clients) <= MaxClients
  /\ \A c \in ClientIds : clients[c] \in {"pending", "resolved", "rejected"}
  /\ Len(calls) = Len(clients)
  /\ \A d \in Delays : timers[d] \in 0..MaxClients
  /\ Len(internalChats) <= MaxChats
  /\ req.endpoint \in {"none", "status", "chats", "recent", "health", "api status",
                       "messages", "send", "minimal health", "start-whatsapp",
                       "express health", "express status", "rest chats"}
  /\ req.code \in {0, 200, 400, 401, 404, 500, 503}
  /\ req.writes \in 0..1
  /\ (req.writes = 1) = (req.code # 0)
  /\ state \in [whatsappInitializing : BOOLEAN, whatsappInitStarted : BOOLEAN,
                whatsappError : ErrorMessages \cup {Null}, clientReady : BOOLEAN,
                latestQrCode : QrPayloads \cup {Null}, client : 0..1,
                initialize : {"none", "pending", "resolved", "rejected"}]

\* main.ts: the state object as startServer creates it; client is the field
\* its REST revision adds; initialize is the state of the promise of
\* client.initialize().
InitialState ==
  [whatsappInitializing |-> FALSE, whatsappInitStarted |-> FALSE,
   whatsappError |-> Null, clientReady |-> FALSE, latestQrCode |-> Null,
   client |-> NoClient, initialize |-> "none"]

(* ---------------------------------------------------------------------- *)
(* Initial state: both modules loaded, server.js has registered its ready  *)
(* callback and armed the startup timer.                                   *)
(* ---------------------------------------------------------------------- *)

InitSession ==
  /\ whatsappClient = NoClient
  /\ connectionStatus = "disconnected"
  /\ qrCodeData = Null
  /\ initializationError = Null
  /\ apiKey = NullKey
  /\ clientReadyCallbacks = << "server" >>
  /\ serverClient = NoClient
  /\ clients = << >>
  /\ calls = << >>
  /\ timers = [d \in Delays |-> IF d = StartupDelay THEN 1 ELSE 0]
  /\ lastEvent = Event("load", NoClient, Null)
  /\ prevApiKey = NullKey
  /\ everReady = FALSE
  /\ delivered = [invoked |-> << >>, escaped |-> FALSE]
  /\ req = NoRequest
  /\ state = InitialState

\* The lifecycle specifications do not look at the client's data.
Init == InitSession /\ internalChats = << >>

\* The HTTP specification starts with any content of the client's internal
\* chat collection.
HttpInit == InitSession /\ internalChats \in ChatLists

(* ---------------------------------------------------------------------- *)
(* initializeWhatsAppClient                                                *)
(* ---------------------------------------------------------------------- *)

\* The synchronous part of initializeWhatsAppClient, up to the await: a new
\* Client replaces the handle, its handlers are registered, status becomes
\* 'initializing' and initialize() is started.  The constructor is called
\* with the same constant options on every call and is taken not to throw;
\* the failure that reaches the catch block is a rejected initialize().
InitializeWhatsAppClient ==
  /\ whatsappClient' = Len(clients) + 1
  /\ clients' = Append(clients, "pending")
  /\ calls' = Append(calls, "pending")
  /\ connectionStatus' = "initializing"
  /\ lastEvent' = Event("start", Len(clients) + 1, Null)
  /\ UNCHANGED << qrCodeData, initializationError, apiKey, clientReadyCallbacks,
                  serverClient, prevApiKey, everReady, delivered, internalChats, req, state >>

\* A pending timer fires and calls initializeWhatsAppClient.
TimerFires(d) ==
  /\ timers[d] > 0
  /\ timers' = [timers EXCEPT ![d] = @ - 1]
  /\ InitializeWhatsAppClient

\* await whatsappClient.initialize() returns: the call completes.
InitializeResolves(c) ==
  /\ c \in ClientIds
  /\ clients[c] = "pending"
  /\ clients' = [clients EXCEPT ![c] = "resolved"]
  /\ calls' = [calls EXCEPT ![c] = "fulfilled"]
  /\ lastEvent' = Event("init_resolved", c, Null)
  /\ UNCHANGED << session, timers, prevApiKey, everReady, delivered, internalChats, req, state >>

\* Variant: the catch block rethrows after recording the error.
CatchInitError_Rethrows(c, msg) ==
  /\ connectionStatus' = "error"
  /\ initializationError' = msg
  /\ timers' = SetTimeout(ErrorRetryDelay)
  /\ calls' = [calls EXCEPT ![c] = "rejected"]

\* The catch block of initializeWhatsAppClient.
CatchInitError(c, msg) ==
  /\ connectionStatus' = "error"
  /\ initializationError' = msg
  /\ timers' = SetTimeout(ErrorRetryDelay)
  /\ calls' = [calls EXCEPT ![c] = "fulfilled"]

\* await whatsappClient.initialize() throws an error with message msg.
InitializeRejects(c, msg) ==
  /\ c \in ClientIds
  /\ clients[c] = "pending"
  /\ MayRetry
  /\ clients' = [clients EXCEPT ![c] = "rejected"]
  /\ CatchInitError(c, msg)
  /\ lastEvent' = Event("init_error", c, msg)
  /\ UNCHANGED << whatsappClient, qrCodeData, apiKey, clientReadyCallbacks,
                  serverClient, prevApiKey, everReady, delivered, internalChats, req, state >>

(* ---------------------------------------------------------------------- *)
(* Event handlers registered on every client                               *)
(* ---------------------------------------------------------------------- *)

\* whatsappClient.on('qr', ...)
OnQr(c, qr) ==
  /\ c \in Emitting
  /\ qrCodeData' = qr
  /\ connectionStatus' = "qr_received"
  /\ lastEvent' = Event("qr", c, qr)
  /\ UNCHANGED << whatsappClient, initializationError, apiKey, clientReadyCallbacks,
                  serverClient, clients, calls, timers, prevApiKey, everReady, delivered, internalChats, req, state >>

\* The callbacks that can be registered with onClientReady: server.js's own
\* (it stores the handle it is given), a callback that returns normally and
\* a callback that throws.
Callbacks == {"server", "plain", "throwing"}
RegistrableCallbacks == {"plain", "throwing"}
Throws(cb) == cb = "throwing"

Invocation(cb, handle, status) == [cb |-> cb, handle |-> handle, status |-> status]

\* Nothing invoked yet; ref is server.js's client reference.
NoDelivery(ref) == [invoked |-> << >>, ref |-> ref, escaped |-> FALSE]

\* callback(whatsappClient): one call of a callback, made while the status
\* is the given one; escaped tells that the call threw.
CallCallback(cb, handle, status, acc) ==
  [ invoked |-> Append(acc.invoked, Invocation(cb, handle, status)),
    ref |-> IF cb = "server" THEN handle ELSE acc.ref,
    escaped |-> Throws(cb) ]

RECURSIVE ForEachCallback(_, _, _, _)
\* clientReadyCallbacks.forEach(callback => { try { callback(whatsappClient) }
\* catch (error) { console.error(...) } }): every call is made in order, an
\* exception of a call is caught and logged.
ForEachCallback(cbs, handle, status, acc) ==
  IF cbs = << >> THEN acc
  ELSE LET called == CallCallback(Head(cbs), handle, status, acc)
           caught == [called EXCEPT !.escaped = FALSE]
       IN ForEachCallback(Tail(cbs), handle, status, caught)

\* Variant: the ready handler forgets to clear the QR payload.
OnReady_KeepsQr(c, draws) ==
  LET run == ForEachCallback(clientReadyCallbacks, whatsappClient, "ready",
                             NoDelivery(serverClient))
  IN /\ c \in Emitting
     /\ apiKey' = GenerateApiKey(draws)
     /\ connectionStatus' = "ready"
     /\ qrCodeData' = qrCodeData
     /\ serverClient' = run.ref
     /\ delivered' = [invoked |-> run.invoked, escaped |-> run.escaped]
     /\ lastEvent' = Event("ready", c, qrCodeData)
     /\ prevApiKey' = apiKey
     /\ everReady' = TRUE
     /\ UNCHANGED << whatsappClient, initializationError, clientReadyCallbacks,
                     clients, calls, timers, internalChats, req, state >>

\* whatsappClient.on('ready', ...)
OnReady(c, draws) ==
  LET run == ForEachCallback(clientReadyCallbacks, whatsappClient, "ready",
                             NoDelivery(serverClient))
  IN /\ c \in Emitting
     /\ apiKey' = GenerateApiKey(draws)
     /\ connectionStatus' = "ready"
     /\ qrCodeData' = Null
     /\ serverClient' = run.ref
     /\ delivered' = [invoked |-> run.invoked, escaped |-> run.escaped]
     /\ lastEvent' = Event("ready", c, qrCodeData)
     /\ prevApiKey' = apiKey
     /\ everReady' = TRUE
     /\ UNCHANGED << whatsappClient, initializationError, clientReadyCallbacks,
                     clients, calls, timers, internalChats, req, state >>

\* Variant: the authenticated handler sets the status of the ready handler.
OnAuthenticated_SetsReady(c) ==
  /\ c \in Emitting
  /\ connectionStatus' = "ready"
  /\ lastEvent' = Event("authenticated", c, Null)
  /\ UNCHANGED << whatsappClient, qrCodeData, initializationError, apiKey,
                  clientReadyCallbacks, serverClient, clients, calls, timers, prevApiKey, everReady, delivered, internalChats, req, state >>

\* whatsappClient.on('authenticated', ...)
OnAuthenticated(c) ==
  /\ c \in Emitting
  /\ connectionStatus' = "authenticated"
  /\ lastEvent' = Event("authenticated", c, Null)
  /\ UNCHANGED << whatsappClient, qrCodeData, initializationError, apiKey,
                  clientReadyCallbacks, serverClient, clients, calls, timers, prevApiKey, everReady, delivered, internalChats, req, state >>

\* Variant: the auth_failure handler also withdraws the API key.
OnAuthFailure_DropsKey(c, msg) ==
  /\ c \in Emitting
  /\ connectionStatus' = "auth_failure"
  /\ initializationError' = msg
  /\ apiKey' = NullKey
  /\ lastEvent' = Event("auth_failure", c, msg)
  /\ UNCHANGED << whatsappClient, qrCodeData, clientReadyCallbacks,
                  serverClient, clients, calls, timers, prevApiKey, everReady, delivered, internalChats, req, state >>

\* whatsappClient.on('auth_failure', ...)
OnAuthFailure(c, msg) ==
  /\ c \in Emitting
  /\ connectionStatus' = "auth_failure"
  /\ initializationError' = msg
  /\ lastEvent' = Event("auth_failure", c, msg)
  /\ UNCHANGED << whatsappClient, qrCodeData, apiKey, clientReadyCallbacks,
                  serverClient, clients, calls, timers, prevApiKey, everReady, delivered, internalChats, req, state >>

\* Variant: the disconnected handler also drops the API key.
OnDisconnected_DropsKey(c, reason) ==
  /\ c \in Emitting
  /\ MayRetry
  /\ connectionStatus' = "disconnected"
  /\ apiKey' = NullKey
  /\ timers' = SetTimeout(DisconnectRetryDelay)
  /\ lastEvent' = Event("disconnected", c, reason)
  /\ UNCHANGED << whatsappClient, qrCodeData, initializationError,
                  clientReadyCallbacks, serverClient, clients, calls, prevApiKey, everReady, delivered, internalChats, req, state >>

\* Variant: the disconnected handler schedules no re-initialization.
OnDisconnected_NoRetry(c, reason) ==
  /\ c \in Emitting
  /\ MayRetry
  /\ connectionStatus' = "disconnected"
  /\ timers' = timers
  /\ lastEvent' = Event("disconnected", c, reason)
  /\ UNCHANGED << whatsappClient, qrCodeData, initializationError, apiKey,
                  clientReadyCallbacks, serverClient, clients, calls, prevApiKey, everReady, delivered, internalChats, req, state >>

\* Variant: the disconnected handler retries with the delay of the catch block.
OnDisconnected_LongDelay(c, reason) ==
  /\ c \in Emitting
  /\ MayRetry
  /\ connectionStatus' = "disconnected"
  /\ timers' = SetTimeout(ErrorRetryDelay)
  /\ lastEvent' = Event("disconnected", c, reason)
  /\ UNCHANGED << whatsappClient, qrCodeData, initializationError, apiKey,
                  clientReadyCallbacks, serverClient, clients, calls, prevApiKey, everReady, delivered, internalChats, req, state >>

\* whatsappClient.on('disconnected', ...)
OnDisconnected(c, reason) ==
  /\ c \in Emitting
  /\ MayRetry
  /\ connectionStatus' = "disconnected"
  /\ timers' = SetTimeout(DisconnectRetryDelay)
  /\ lastEvent' = Event("disconnected", c, reason)
  /\ UNCHANGED << whatsappClient, qrCodeData, initializationError, apiKey,
                  clientReadyCallbacks, serverClient, clients, calls, prevApiKey, everReady, delivered, internalChats, req, state >>

(* ---------------------------------------------------------------------- *)
(* onClientReady                                                           *)
(* ---------------------------------------------------------------------- *)

\* Variant: onClientReady only registers, it never calls back at once.
OnClientReady_NoImmediateCall(cb) ==
  /\ Len(clientReadyCallbacks) < MaxCallbacks
  /\ clientReadyCallbacks' = Append(clientReadyCallbacks, cb)
  /\ delivered' = [invoked |-> << >>, escaped |-> FALSE]
  /\ lastEvent' = Event("onClientReady", NoClient, cb)
  /\ UNCHANGED << whatsappClient, connectionStatus, qrCodeData, initializationError,
                  apiKey, serverClient, clients, calls, timers, prevApiKey, everReady,
                  internalChats, req, state >>

\* onClientReady(callback): the callback is pushed; when the client is
\* already ready it is called at once, outside any try block.
OnClientReady(cb) ==
  LET call == IF connectionStatus = "ready" /\ whatsappClient # NoClient
              THEN CallCallback(cb, whatsappClient, connectionStatus, NoDelivery(serverClient))
              ELSE NoDelivery(serverClient)
  IN /\ Len(clientReadyCallbacks) < MaxCallbacks
     /\ clientReadyCallbacks' = Append(clientReadyCallbacks, cb)
     /\ serverClient' = call.ref
     /\ delivered' = [invoked |-> call.invoked, escaped |-> call.escaped]
     /\ lastEvent' = Event("onClientReady", NoClient, cb)
     /\ UNCHANGED << whatsappClient, connectionStatus, qrCodeData, initializationError,
                     apiKey, clients, calls, timers, prevApiKey, everReady,
                  internalChats, req, state >>

(* ---------------------------------------------------------------------- *)
(* Reads                                                                   *)
(* ---------------------------------------------------------------------- *)

\* Variant: getStatus() returns the key in every status.
GetStatus_ExposesKey ==
  [ status |-> connectionStatus,
    error |-> initializationError,
    apiKey |-> apiKey ]

\* Variant: getStatus() withholds the error.
GetStatus_HidesError ==
  [ status |-> connectionStatus,
    error |-> Null,
    apiKey |-> IF connectionStatus = "ready" THEN apiKey ELSE NullKey ]

\* getStatus()
GetStatus ==
  [ status |-> connectionStatus,
    error |-> initializationError,
    apiKey |-> IF connectionStatus = "ready" THEN apiKey ELSE NullKey ]

\* getQRCode(): Null without a stored payload or when rendering fails,
\* else the payload rendered as a data URL.
GetQRCode(renders) ==
  IF qrCodeData = Null THEN Null
  ELSE IF renders THEN << "data:image/png", qrCodeData >> ELSE Null

(* ---------------------------------------------------------------------- *)
(* server.js: GET /status, GET /api/chats, GET /api/recent-message and     *)
(* their fetch chains.  One request is followed at a time; a new one is    *)
(* taken once the previous one has been answered.                          *)
(* ---------------------------------------------------------------------- *)

\* What one strategy call can settle with: an exception, or a collection
\* (null and undefined behave like the empty collection).
Outcomes ==
  {[throws |-> TRUE, chats |-> << >>]} \cup {[throws |-> FALSE, chats |-> l] : l \in ChatLists}

NonEmpty(outcome) == ~outcome.throws /\ Len(outcome.chats) > 0

\* Credentials a caller may present (NullKey: none).
ProvidedKeys == {NullKey, WrongKey} \cup {GenerateApiKey(draws) : draws \in RandomDraws}

\* What belongs to the integration module and its clients.
integration ==
  << session, clients, calls, timers, lastEvent, prevApiKey, everReady, delivered >>

\* What the HTTP handlers leave alone.
lifecycle ==
  << session, clients, calls, timers, lastEvent, prevApiKey, everReady, delivered, state >>

\* res.writeHead(code); res.end(JSON.stringify(body))
Respond(r, code, body) == [r EXCEPT !.code = code, !.body = body, !.writes = @ + 1]

\* A new request can be taken once the previous one has been answered.
Answered == req.endpoint = "none" \/ req.writes > 0

\* getChatsCustom of /api/chats has returned chats: the race, if still
\* pending, is won by the chain and its .then normalizes and answers 200; an
\* exception of the normalization goes to the .catch, which answers 500.
SettleChats(r, chats, source) ==
  LET r1 == [r EXCEPT !.chain = [state |-> "fulfilled", value |-> chats, source |-> source,
                                   raw |-> chats],
                      !.pc = "done"]
      r2 == [r1 EXCEPT !.race = "fulfilled"]
  IN IF r1.race # "pending" THEN r1
     ELSE IF FormatChatsThrows(chats)
     THEN Respond([r2 EXCEPT !.raised = TRUE], 500, ErrorBody(TypeErrorMessage))
     ELSE Respond(r2, 200, ChatsBody(FormatChats(chats)))

\* Variant: the handler answers 200 whether or not the race is settled.
RecentReturns_IgnoresRace(r, result) ==
  Respond([r EXCEPT !.pc = "done", !.race = "fulfilled"], 200, result)

\* getRecentMessage of /api/recent-message returns result: the race, if
\* still pending, is won and the handler answers 200 with the result.
RecentReturns(r, result) ==
  LET r1 == [r EXCEPT !.pc = "done"]
  IN IF r1.race # "pending" THEN r1
     ELSE Respond([r1 EXCEPT !.race = "fulfilled"], 200, result)

\* The serialized id of the chat /api/recent-message has selected.
RecentChatId(r) == Get(r.chain.value[1].id).serialized

\* getChatsCustom of /api/recent-message has returned chats: no chat is
\* reported as such; else the chats are sorted in place, newest first, and
\* the first one is looked up unless it has no serialized id.
ContinueRecent(r, chats, source) ==
  LET sorted == SortChats(chats)
      r1 == [r EXCEPT !.chain = [state |-> "fulfilled", value |-> sorted, source |-> source,
                                 raw |-> chats]]
  IN IF Len(chats) = 0 THEN RecentReturns(r1, RecentBody("noChats", Absent))
     ELSE IF ~HasSerializedId(sorted[1]) THEN RecentReturns(r1, RecentBody("noValidChat", Absent))
     ELSE [r1 EXCEPT !.pc = "getChatById", !.invoked = Append(@, "getChatById")]

\* The chain of a request returns the chats it has got from source.
ChainReturns(r, chats, source) ==
  IF r.endpoint = "chats" THEN SettleChats(r, chats, source)
  ELSE ContinueRecent(r, chats, source)

\* Variant: /api/chats returns [] as well.
Fallback_ReturnsEmpty(r, now) == ChainReturns(r, << >>, "fallback")

\* Every strategy failed: /api/chats returns one mock chat,
\* /api/recent-message returns [].
Fallback(r, now) ==
  ChainReturns(r, IF r.endpoint = "chats" THEN << MockChat(now) >> ELSE << >>, "fallback")

\* Fourth strategy: evaluate in the page, when the client has a page.
TryEvaluate(r, hasPage, now) ==
  IF hasPage
  THEN [r EXCEPT !.pc = "evaluate", !.invoked = Append(@, "pupPage.evaluate")]
  ELSE Fallback(r, now)

\* Third strategy: the store, when the client has one with a getChats.
TryStore(r, hasStore, hasPage, now) ==
  IF hasStore
  THEN [r EXCEPT !.pc = "store", !.invoked = Append(@, "store.getChats")]
  ELSE TryEvaluate(r, hasPage, now)

\* Second strategy: the internal _chats collection, read synchronously.
TryInternal(r, hasStore, hasPage, now) ==
  IF Len(internalChats) > 0
  THEN ChainReturns([r EXCEPT !.invoked = Append(@, "_chats")], internalChats, "_chats")
  ELSE TryStore([r EXCEPT !.invoked = Append(@, "_chats")], hasStore, hasPage, now)

\* Variant: the chain starts its first and its third strategy together.
StartFetch_StartsTwoStrategies(endpoint, provided) ==
  LET status == GetStatus
      r0 == [NoRequest EXCEPT !.endpoint = endpoint]
  IN IF /\ status.status = "ready" /\ status.apiKey # NullKey
        /\ provided # NullKey /\ provided # status.apiKey
     THEN Respond(r0, 401, ErrorBody(InvalidKeyMessage))
     ELSE IF status.status # "ready"
     THEN Respond(r0, 503, NotReadyBody(status.status))
     ELSE IF serverClient = NoClient
     THEN Respond(r0, 500, ErrorBody(NoClientMessage))
     ELSE [r0 EXCEPT !.timer = "armed", !.race = "pending",
                     !.chain = [state |-> "pending", value |-> << >>, source |-> "none",
                                raw |-> << >>],
                     !.pc = "primary", !.invoked = << "getChats", "store.getChats" >>]

\* The common start of /api/chats and /api/recent-message: status snapshot,
\* credential check, readiness check, null handle check, then the 15 s
\* timer is armed and the chain starts with the primary strategy.
StartFetch(endpoint, provided) ==
  LET status == GetStatus
      r0 == [NoRequest EXCEPT !.endpoint = endpoint]
  IN IF /\ status.status = "ready" /\ status.apiKey # NullKey
        /\ provided # NullKey /\ provided # status.apiKey
     THEN Respond(r0, 401, ErrorBody(InvalidKeyMessage))
     ELSE IF status.status # "ready"
     THEN Respond(r0, 503, NotReadyBody(status.status))
     ELSE IF serverClient = NoClient
     THEN Respond(r0, 500, ErrorBody(NoClientMessage))
     ELSE [r0 EXCEPT !.timer = "armed", !.race = "pending",
                     !.chain = [state |-> "pending", value |-> << >>, source |-> "none",
                                raw |-> << >>],
                     !.pc = "primary", !.invoked = << "getChats" >>]

\* GET /status: the answer carries what getStatus() returns.
StatusRequest ==
  /\ Answered
  /\ req' = Respond([NoRequest EXCEPT !.endpoint = "status"], 200, StatusBody(GetStatus))
  /\ UNCHANGED << lifecycle, internalChats >>

\* GET /api/chats
ChatsRequest(provided) ==
  /\ Answered
  /\ req' = StartFetch("chats", provided)
  /\ UNCHANGED << lifecycle, internalChats >>

\* GET /api/recent-message
RecentRequest(provided) ==
  /\ Answered
  /\ req' = StartFetch("recent", provided)
  /\ UNCHANGED << lifecycle, internalChats >>

\* await whatsappClient.getChats() settles; without a result the chain goes
\* on to _chats, which /api/recent-message sorts in place when it takes it.
PrimarySettles(outcome, hasStore, hasPage, now) ==
  /\ req.pc = "primary"
  /\ req' = IF NonEmpty(outcome) THEN ChainReturns(req, outcome.chats, "getChats")
            ELSE TryInternal(req, hasStore, hasPage, now)
  /\ internalChats' = IF req.endpoint = "recent" /\ ~NonEmpty(outcome)
                      THEN SortChats(internalChats) ELSE internalChats
  /\ UNCHANGED lifecycle

\* await whatsappClient.store.getChats() settles.
StoreSettles(outcome, hasPage, now) ==
  /\ req.pc = "store"
  /\ req' = IF NonEmpty(outcome) THEN ChainReturns(req, outcome.chats, "store.getChats")
            ELSE TryEvaluate(req, hasPage, now)
  /\ UNCHANGED << lifecycle, internalChats >>

\* await whatsappClient.pupPage.evaluate(...) settles.
EvaluateSettles(outcome, now) ==
  /\ req.pc = "evaluate"
  /\ req' = IF NonEmpty(outcome)
            THEN ChainReturns(req, MapEvaluatedChats(req.endpoint, outcome.chats),
                              "pupPage.evaluate")
            ELSE Fallback(req, now)
  /\ UNCHANGED << lifecycle, internalChats >>

\* await whatsappClient.getChatById(id) settles: a failure is reported as
\* chatError, else the messages of the chat are fetched.
GetChatByIdSettles(found) ==
  /\ req.pc = "getChatById"
  /\ req' = IF found
            THEN [req EXCEPT !.pc = "fetchMessages", !.invoked = Append(@, "fetchMessages")]
            ELSE RecentReturns([req EXCEPT !.raised = TRUE],
                               RecentBody("chatError", RecentChatId(req)))
  /\ UNCHANGED << lifecycle, internalChats >>

\* await chat.fetchMessages({ limit: 1 }) settles: its rejection, and the
\* TypeError of messages[0].id._serialized on a message without id, are
\* caught and reported as chatError.
FetchMessagesSettles(outcome) ==
  /\ req.pc = "fetchMessages"
  /\ req' = RecentReturns([req EXCEPT !.raised = @ \/ outcome \in {"throws", "malformed"}],
              RecentBody(CASE outcome \in {"throws", "malformed"} -> "chatError"
                           [] outcome = "empty" -> "noMessages"
                           [] OTHER -> "success",
                         RecentChatId(req)))
  /\ UNCHANGED << lifecycle, internalChats >>

\* Variant: the timer resolves the race instead of rejecting it.
TimeoutFires_Resolves ==
  /\ req.timer = "armed"
  /\ req' = LET r1 == [req EXCEPT !.timer = "fired"]
            IN IF req.race = "pending"
               THEN IF req.endpoint = "chats"
                    THEN Respond([r1 EXCEPT !.race = "fulfilled"], 200, ChatsBody(<< >>))
                    ELSE Respond([r1 EXCEPT !.race = "fulfilled"], 200, NoBody)
               ELSE r1
  /\ UNCHANGED << lifecycle, internalChats >>

\* The 15 s timer of the request fires: timeoutPromise rejects; when the
\* race is still pending the handler's catch answers 500 with the timeout
\* message.  The chain is not cancelled.
TimeoutFires ==
  /\ req.timer = "armed"
  /\ req' = LET r1 == [req EXCEPT !.timer = "fired"]
            IN IF req.race = "pending"
               THEN Respond([r1 EXCEPT !.race = "rejected", !.raised = TRUE],
                            500, ErrorBody(TimeoutMessage))
               ELSE r1
  /\ UNCHANGED << lifecycle, internalChats >>

(* ---------------------------------------------------------------------- *)
(* server.js: GET /health, GET /api/status, GET /api/messages/:id and      *)
(* POST /api/send                                                          *)
(* ---------------------------------------------------------------------- *)

\* The chat id segment of a /api/messages/ URL: empty, or an id.
UrlChatIds == {Absent, Some("c1")}

\* What chat.fetchMessages({ limit }) of /api/messages can settle with.
MessageOutcomes ==
  {[throws |-> TRUE, messages |-> << >>]} \cup
  {[throws |-> FALSE, messages |-> l] : l \in MessageLists}

\* Variant: the read endpoints reject a missing credential as /api/send does.
ReadKeyRejected_RequiresKey(status, provided) ==
  /\ status.status = "ready" /\ status.apiKey # NullKey
  /\ provided # status.apiKey

\* Variant: the read endpoints compare no credential.
ReadKeyRejected_NeverRejects(status, provided) == FALSE

\* The credential check of the read endpoints: a credential is compared
\* only when status is ready and a key has been issued, and it is rejected
\* only when one is provided and differs.
ReadKeyRejected(status, provided) ==
  /\ status.status = "ready" /\ status.apiKey # NullKey
  /\ provided # NullKey /\ provided # status.apiKey

\* GET /health
HealthRequest(now) ==
  /\ Answered
  /\ req' = Respond([NoRequest EXCEPT !.endpoint = "health"], 200, HealthBody(now))
  /\ UNCHANGED << lifecycle, internalChats >>

\* GET /api/status
ApiStatusRequest(creds, now) ==
  LET status == GetStatus
      r0 == [NoRequest EXCEPT !.endpoint = "api status"]
  IN /\ Answered
     /\ req' = IF ReadKeyRejected(status, ProvidedApiKey(creds))
               THEN Respond(r0, 401, ErrorBody(InvalidKeyMessage))
               ELSE Respond(r0, 200, ApiStatusBody(status, now))
     /\ UNCHANGED << lifecycle, internalChats >>

\* GET /api/messages/:id up to the call of getChatById, which is made in a
\* try block (a null handle gives a TypeError, answered 500).
MessagesRequest(creds, chatId) ==
  LET status == GetStatus
      r0 == [NoRequest EXCEPT !.endpoint = "messages"]
  IN /\ Answered
     /\ req' =
          IF ReadKeyRejected(status, ProvidedApiKey(creds))
          THEN Respond(r0, 401, ErrorBody(InvalidKeyMessage))
          ELSE IF status.status # "ready"
          THEN Respond(r0, 503, NotReadyBody(status.status))
          ELSE IF ~TruthyString(chatId)
          THEN Respond(r0, 400, ErrorBody(MissingChatIdMessage))
          ELSE IF serverClient = NoClient
          THEN Respond([r0 EXCEPT !.raised = TRUE], 500, ErrorBody(NullHandleMessage))
          ELSE [r0 EXCEPT !.pc = "messages.getChatById", !.invoked = << "getChatById" >>]
     /\ UNCHANGED << lifecycle, internalChats >>

\* getChatById of /api/messages settles: a rejection is answered 404, else
\* the messages are fetched.
MessagesChatSettles(found) ==
  /\ req.pc = "messages.getChatById"
  /\ req' = IF found
            THEN [req EXCEPT !.pc = "messages.fetchMessages",
                             !.invoked = Append(@, "fetchMessages")]
            ELSE Respond([req EXCEPT !.pc = "done", !.raised = TRUE],
                         404, ErrorBody(ChatNotFoundMessage))
  /\ UNCHANGED << lifecycle, internalChats >>

\* fetchMessages of /api/messages settles: a rejection and an exception of
\* the normalization are answered 500, else the messages are answered 200.
MessagesFetchSettles(outcome) ==
  /\ req.pc = "messages.fetchMessages"
  /\ req' = LET r1 == [req EXCEPT !.pc = "done"]
            IN IF outcome.throws
               THEN Respond([r1 EXCEPT !.raised = TRUE], 500, ErrorBody(ClientErrorMessage))
               ELSE IF FormatMessagesThrows(outcome.messages)
               THEN Respond([r1 EXCEPT !.raised = TRUE], 500, ErrorBody(TypeErrorMessage))
               ELSE Respond(r1, 200, MessagesBody(FormatMessages(outcome.messages)))
  /\ UNCHANGED << lifecycle, internalChats >>

\* Variant: /api/send starts to read the body whatever the status is.
SendRequest_SkipsReadiness(creds) ==
  /\ Answered
  /\ req' = [NoRequest EXCEPT !.endpoint = "send", !.pc = "send.body"]
  /\ UNCHANGED << lifecycle, internalChats >>

\* POST /api/send up to the registration of the body listeners: with status
\* ready and a key issued the credential of the headers must be present and
\* equal, in every other case the answer is 503.
SendRequest(creds) ==
  LET status == GetStatus
      provided == ProvidedSendKey(creds)
      r0 == [NoRequest EXCEPT !.endpoint = "send"]
  IN /\ Answered
     /\ req' =
          IF status.status = "ready" /\ status.apiKey # NullKey
          THEN IF provided = NullKey \/ provided # status.apiKey
               THEN Respond(r0, 401, ErrorBody(InvalidOrMissingKeyMessage))
               ELSE [r0 EXCEPT !.pc = "send.body"]
          ELSE Respond(r0, 503, NotReadyBody(status.status))
     /\ UNCHANGED << lifecycle, internalChats >>

\* Variant: sendMessage of the integration module does not look at the
\* status.
SendBodyEnds_NoStatusCheck(body) ==
  /\ req.pc = "send.body"
  /\ req' = LET r1 == [req EXCEPT !.pc = "done"]
            IN IF ~body.json
               THEN Respond([r1 EXCEPT !.raised = TRUE], 400, ErrorBody(InvalidJsonMessage))
               ELSE IF ~TruthyString(body.to) \/ ~TruthyString(body.message)
               THEN Respond(r1, 400, ErrorBody(MissingFieldsMessage))
               ELSE [req EXCEPT !.pc = "send.sendMessage", !.invoked = << "sendMessage" >>]
  /\ UNCHANGED << lifecycle, internalChats >>

\* Variant: the message is sent before the fields are checked.
SendBodyEnds_SendsFirst(body) ==
  /\ req.pc = "send.body"
  /\ req' = [req EXCEPT !.pc = "send.sendMessage", !.invoked = << "sendMessage" >>]
  /\ UNCHANGED << lifecycle, internalChats >>

\* The 'end' event of the body of a /api/send request: text that does not
\* parse and a missing field are answered 400; else whatsapp.sendMessage is
\* called, which throws unless status is ready (answered 500) and else
\* calls sendMessage of the client.
SendBodyEnds(body) ==
  /\ req.pc = "send.body"
  /\ req' = LET r1 == [req EXCEPT !.pc = "done"]
            IN IF ~body.json
               THEN Respond([r1 EXCEPT !.raised = TRUE], 400, ErrorBody(InvalidJsonMessage))
               ELSE IF ~TruthyString(body.to) \/ ~TruthyString(body.message)
               THEN Respond(r1, 400, ErrorBody(MissingFieldsMessage))
               ELSE IF connectionStatus # "ready"
               THEN Respond([r1 EXCEPT !.raised = TRUE], 500, ErrorBody(CannotSendMessage))
               ELSE [req EXCEPT !.pc = "send.sendMessage", !.invoked = << "sendMessage" >>]
  /\ UNCHANGED << lifecycle, internalChats >>

\* whatsappClient.sendMessage settles.
SendSettles(sent) ==
  /\ req.pc = "send.sendMessage"
  /\ req' = LET r1 == [req EXCEPT !.pc = "done"]
            IN IF sent THEN Respond(r1, 200, SentBody)
               ELSE Respond([r1 EXCEPT !.raised = TRUE], 500, ErrorBody(ClientErrorMessage))
  /\ UNCHANGED << lifecycle, internalChats >>

(* ---------------------------------------------------------------------- *)
(* src/server.js (the minimal server): GET /health                         *)
(* ---------------------------------------------------------------------- *)

MinimalHealthRequest(now) ==
  /\ Answered
  /\ req' = Respond([NoRequest EXCEPT !.endpoint = "minimal health"], 200, HealthBody(now))
  /\ UNCHANGED << lifecycle, internalChats >>

(* ---------------------------------------------------------------------- *)
(* main.ts (the Express server): /start-whatsapp, the client's events and  *)
(* GET /health                                                             *)
(* ---------------------------------------------------------------------- *)

\* GET /start-whatsapp: the first request sets the flags and calls
\* initializeWhatsAppClient, which registers the listeners and awaits
\* client.initialize(); later requests only report.
StartWhatsApp ==
  /\ Answered
  /\ LET r0 == [NoRequest EXCEPT !.endpoint = "start-whatsapp"]
     IN IF state.whatsappInitStarted
        THEN /\ req' = Respond(r0, 200, AlreadyStartedBody(state))
             /\ UNCHANGED state
        ELSE /\ req' = Respond(r0, 200, StartedBody)
             /\ state' = [state EXCEPT !.whatsappInitStarted = TRUE,
                                       !.whatsappInitializing = TRUE,
                                       !.initialize = "pending"]
  /\ UNCHANGED << integration, internalChats >>

\* The client of main.ts emits events once its initialize() has been called.
ExpressEmitting == state.initialize \in {"pending", "resolved"}

\* client.on('qr', ...)
ExpressOnQr(qr) ==
  /\ ExpressEmitting
  /\ state' = [state EXCEPT !.latestQrCode = qr]
  /\ UNCHANGED << integration, internalChats, req >>

\* client.on('ready', ...)
ExpressOnReady ==
  /\ ExpressEmitting
  /\ state' = [state EXCEPT !.clientReady = TRUE, !.whatsappInitializing = FALSE]
  /\ UNCHANGED << integration, internalChats, req >>

\* client.on('auth_failure', ...)
ExpressOnAuthFailure(msg) ==
  /\ ExpressEmitting
  /\ state' = [state EXCEPT !.whatsappError = msg]
  /\ UNCHANGED << integration, internalChats, req >>

\* client.on('disconnected', ...)
ExpressOnDisconnected ==
  /\ ExpressEmitting
  /\ state' = [state EXCEPT !.clientReady = FALSE]
  /\ UNCHANGED << integration, internalChats, req >>

\* await client.initialize() returns.
ExpressInitializeResolves ==
  /\ state.initialize = "pending"
  /\ state' = [state EXCEPT !.initialize = "resolved"]
  /\ UNCHANGED << integration, internalChats, req >>

\* await client.initialize() throws: the catch block records the error and
\* does not rethrow.
ExpressInitializeRejects(msg) ==
  /\ state.initialize = "pending"
  /\ state' = [state EXCEPT !.initialize = "rejected",
                            !.whatsappInitializing = FALSE,
                            !.whatsappError = msg]
  /\ UNCHANGED << integration, internalChats, req >>

\* Variant: /health of main.ts answers 503 until the client is ready.
ExpressHealthRequest_ChecksReadiness(now) ==
  /\ Answered
  /\ req' = Respond([NoRequest EXCEPT !.endpoint = "express health"],
                    IF state.clientReady THEN 200 ELSE 503,
                    ExpressHealthBody(state, now))
  /\ UNCHANGED << lifecycle, internalChats >>

\* GET /health of main.ts
ExpressHealthRequest(now) ==
  /\ Answered
  /\ req' = Respond([NoRequest EXCEPT !.endpoint = "express health"], 200,
                    ExpressHealthBody(state, now))
  /\ UNCHANGED << lifecycle, internalChats >>

\* GET /status of main.ts
ExpressStatusRequest(now) ==
  /\ Answered
  /\ req' = Respond([NoRequest EXCEPT !.endpoint = "express status"], 200,
                    ExpressStatusBody(state, now))
  /\ UNCHANGED << lifecycle, internalChats >>

\* GET /api/chats of the REST revision of main.ts, up to the call of
\* getChats on the handle kept in state.client.
RestChatsRequest ==
  LET r0 == [NoRequest EXCEPT !.endpoint = "rest chats"]
  IN /\ Answered
     /\ req' = IF ~state.clientReady
               THEN Respond(r0, 503, ClientNotReadyBody(state))
               ELSE IF state.client = NoClient
               THEN Respond(r0, 500, ClientNotAvailableBody)
               ELSE [r0 EXCEPT !.pc = "rest.getChats", !.invoked = << "getChats" >>]
     /\ UNCHANGED << lifecycle, internalChats >>

(* ---------------------------------------------------------------------- *)
(* Specifications                                                          *)
(* ---------------------------------------------------------------------- *)

Next ==
  \/ \E d \in Delays : TimerFires(d)
  \/ \E c \in ClientIds : InitializeResolves(c)
  \/ \E c \in ClientIds, msg \in ErrorMessages : InitializeRejects(c, msg)
  \/ \E c \in ClientIds, qr \in QrPayloads : OnQr(c, qr)
  \/ \E c \in ClientIds, draws \in RandomDraws : OnReady(c, draws)
  \/ \E c \in ClientIds : OnAuthenticated(c)
  \/ \E c \in ClientIds, msg \in ErrorMessages : OnAuthFailure(c, msg)
  \/ \E c \in ClientIds, reason \in ErrorMessages : OnDisconnected(c, reason)

Spec == Init /\ [][Next]_vars

\* setTimeout callbacks are eventually run by the event loop.
FairSpec == Spec /\ WF_vars(\E d \in Delays : TimerFires(d))

\* The integration module used by further callers of onClientReady, with a
\* client that emits ready and disconnected events only.
CallbackNext ==
  \/ \E d \in Delays : TimerFires(d)
  \/ \E c \in ClientIds, draws \in RandomDraws : OnReady(c, draws)
  \/ \E c \in ClientIds, reason \in ErrorMessages : OnDisconnected(c, reason)
  \/ \E cb \in RegistrableCallbacks : OnClientReady(cb)

CallbackSpec == Init /\ [][CallbackNext]_vars

\* server.js answering HTTP requests while the client it has created at
\* startup emits ready and auth_failure events.
HttpNext ==
  \/ \E d \in Delays : TimerFires(d)
  \/ \E c \in ClientIds, draws \in RandomDraws : OnReady(c, draws)
  \/ \E c \in ClientIds, msg \in ErrorMessages : OnAuthFailure(c, msg)
  \/ StatusRequest
  \/ \E provided \in ProvidedKeys : ChatsRequest(provided)
  \/ \E provided \in ProvidedKeys : RecentRequest(provided)
  \/ \E outcome \in Outcomes, hasStore \in BOOLEAN, hasPage \in BOOLEAN, now \in ClockSeconds :
       PrimarySettles(outcome, hasStore, hasPage, now)
  \/ \E outcome \in Outcomes, hasPage \in BOOLEAN, now \in ClockSeconds :
       StoreSettles(outcome, hasPage, now)
  \/ \E outcome \in Outcomes, now \in ClockSeconds : EvaluateSettles(outcome, now)
  \/ \E found \in BOOLEAN : GetChatByIdSettles(found)
  \/ \E outcome \in FetchOutcomes : FetchMessagesSettles(outcome)
  \/ TimeoutFires

HttpSpec == HttpInit /\ [][HttpNext]_vars

\* The same handlers with an internal collection of at most one record and
\* a 15 s timer that does fire; the client need not answer.
RaceInit == InitSession /\ internalChats \in {<< >>} \cup {<< r >> : r \in ChatRecords}

RaceSpec == RaceInit /\ [][HttpNext]_vars /\ WF_vars(TimeoutFires)

\* server.js answering requests to its endpoints in every status of the
\* session, which is followed from the start of the process until its first
\* retry; the fetch chains of /api/chats and /api/recent-message get no
\* answer from the client here.
EndpointNext ==
  \/ TimerFires(StartupDelay)
  \/ \E c \in ClientIds, msg \in ErrorMessages : InitializeRejects(c, msg)
  \/ \E c \in ClientIds, qr \in QrPayloads : OnQr(c, qr)
  \/ \E c \in ClientIds : OnAuthenticated(c)
  \/ \E c \in ClientIds, draws \in RandomDraws : OnReady(c, draws)
  \/ \E c \in ClientIds, msg \in ErrorMessages : OnAuthFailure(c, msg)
  \/ \E now \in ClockSeconds : HealthRequest(now)
  \/ \E creds \in Credentials, now \in ClockSeconds : ApiStatusRequest(creds, now)
  \/ \E creds \in Credentials : ChatsRequest(ProvidedApiKey(creds))
  \/ \E creds \in Credentials : RecentRequest(ProvidedApiKey(creds))
  \/ \E creds \in Credentials, chatId \in UrlChatIds : MessagesRequest(creds, chatId)
  \/ \E found \in BOOLEAN : MessagesChatSettles(found)
  \/ \E outcome \in MessageOutcomes : MessagesFetchSettles(outcome)
  \/ \E creds \in Credentials : SendRequest(creds)
  \/ \E body \in SendBodies : SendBodyEnds(body)
  \/ \E sent \in BOOLEAN : SendSettles(sent)
  \/ TimeoutFires

EndpointSpec == Init /\ [][EndpointNext]_vars

\* The 15 s timer of a request does fire; the client need not answer.
EndpointFairSpec == EndpointSpec /\ WF_vars(TimeoutFires)

\* The health endpoints of the three servers, each with the whole life of
\* its session (that of server.js until its first retry).
HealthNext ==
  \/ TimerFires(StartupDelay)
  \/ \E c \in ClientIds, msg \in ErrorMessages : InitializeRejects(c, msg)
  \/ \E c \in ClientIds, qr \in QrPayloads : OnQr(c, qr)
  \/ \E c \in ClientIds, draws \in RandomDraws : OnReady(c, draws)
  \/ \E c \in ClientIds, reason \in ErrorMessages : OnDisconnected(c, reason)
  \/ \E now \in ClockSeconds : HealthRequest(now)
  \/ \E now \in ClockSeconds : MinimalHealthRequest(now)
  \/ StartWhatsApp
  \/ \E qr \in QrPayloads : ExpressOnQr(qr)
  \/ ExpressOnReady
  \/ \E msg \in ErrorMessages : ExpressOnAuthFailure(msg)
  \/ ExpressOnDisconnected
  \/ ExpressInitializeResolves
  \/ \E msg \in ErrorMessages : ExpressInitializeRejects(msg)
  \/ \E now \in ClockSeconds : ExpressHealthRequest(now)

HealthSpec == Init /\ [][HealthNext]_vars

\* /api/send while the session goes on: a client that becomes ready, fails
\* to authenticate, disconnects or whose initialization fails.
SendNext ==
  \/ TimerFires(StartupDelay)
  \/ \E c \in ClientIds, msg \in ErrorMessages : InitializeRejects(c, msg)
  \/ \E c \in ClientIds, draws \in RandomDraws : OnReady(c, draws)
  \/ \E c \in ClientIds, msg \in ErrorMessages : OnAuthFailure(c, msg)
  \/ \E c \in ClientIds, reason \in ErrorMessages : OnDisconnected(c, reason)
  \/ \E creds \in Credentials : SendRequest(creds)
  \/ \E body \in SendBodies : SendBodyEnds(body)
  \/ \E sent \in BOOLEAN : SendSettles(sent)

SendSpec == Init /\ [][SendNext]_vars

\* The Express server: its start endpoint, the events of its client and its
\* reporting endpoints.
ExpressNext ==
  \/ StartWhatsApp
  \/ \E qr \in QrPayloads : ExpressOnQr(qr)
  \/ ExpressOnReady
  \/ \E msg \in ErrorMessages : ExpressOnAuthFailure(msg)
  \/ ExpressOnDisconnected
  \/ ExpressInitializeResolves
  \/ \E msg \in ErrorMessages : ExpressInitializeRejects(msg)
  \/ \E now \in ClockSeconds : ExpressHealthRequest(now)
  \/ \E now \in ClockSeconds : ExpressStatusRequest(now)
  \/ RestChatsRequest

ExpressSpec == Init /\ [][ExpressNext]_vars

\* server.js checking the credentials of requests, from the start of the
\* process to status ready and on.
CredentialNext ==
  \/ TimerFires(StartupDelay)
  \/ \E c \in ClientIds, draws \in RandomDraws : OnReady(c, draws)
  \/ \E creds \in Credentials, now \in ClockSeconds : ApiStatusRequest(creds, now)
  \/ \E creds \in Credentials : ChatsRequest(ProvidedApiKey(creds))
  \/ \E creds \in Credentials : RecentRequest(ProvidedApiKey(creds))
  \/ \E creds \in Credentials, chatId \in UrlChatIds : MessagesRequest(creds, chatId)
  \/ \E found \in BOOLEAN : MessagesChatSettles(found)
  \/ \E outcome \in MessageOutcomes : MessagesFetchSettles(outcome)
  \/ \E creds \in Credentials : SendRequest(creds)
  \/ \E body \in SendBodies : SendBodyEnds(body)
  \/ \E sent \in BOOLEAN : SendSettles(sent)
  \/ TimeoutFires

CredentialSpec == Init /\ [][CredentialNext]_vars

\* /api/chats answering from an internal collection of one record, of any
\* timestamp, while the primary strategy fails.
NormalizeInit == InitSession /\ internalChats \in {<< r >> : r \in TimestampRecords}

NormalizeNext ==
  \/ \E d \in Delays : TimerFires(d)
  \/ \E c \in ClientIds, draws \in RandomDraws : OnReady(c, draws)
  \/ \E provided \in ProvidedKeys : ChatsRequest(provided)
  \/ \E hasStore \in BOOLEAN, hasPage \in BOOLEAN, now \in ClockSeconds :
       PrimarySettles([throws |-> TRUE, chats |-> << >>], hasStore, hasPage, now)
  \/ TimeoutFires

NormalizeSpec == NormalizeInit /\ [][NormalizeNext]_vars

(* ---------------------------------------------------------------------- *)
(* Properties of the lifecycle (integration module)                        *)
(* ---------------------------------------------------------------------- *)

GeneratedKeys == {GenerateApiKey(draws) : draws \in RandomDraws}

LifecycleEvents ==
  {"qr", "authenticated", "ready", "auth_failure", "disconnected", "init_error"}

TableStatus(type) ==
  CASE type = "qr" -> "qr_received"
    [] type = "authenticated" -> "authenticated"
    [] type = "ready" -> "ready"
    [] type = "auth_failure" -> "auth_failure"
    [] type = "disconnected" -> "disconnected"
    [] type = "init_error" -> "error"

Started == {"initializing", "qr_received", "authenticated", "ready"}

\* C4: initializeWhatsAppClient called while status is already
\* 'initializing' or beyond is a no-op: no client is created, no handler is
\* registered, the session state is unchanged.
C4_StartIdempotent ==
  [][(lastEvent'.type = "start" /\ connectionStatus \in Started) =>
        UNCHANGED << session, clients >>]_vars

Initializing == {c \in ClientIds : clients[c] = "pending"}

\* C5: at most one client instance is live (initializing, or with handlers
\* able to change the session state) and at most one re-initialization is
\* pending or in progress.
C5_SingleLiveClient ==
  /\ Cardinality(Emitting) <= 1
  /\ PendingTimers + Cardinality(Initializing) <= 1

\* C6: processing an auth_failure event sets status 'auth_failure', records
\* the reason and schedules one re-initialization after the long backoff.
C6_AuthFailureSchedulesRestart ==
  [][lastEvent'.type = "auth_failure" =>
       /\ connectionStatus' = "auth_failure"
       /\ initializationError' = lastEvent'.arg
       /\ timers' = SetTimeout(ErrorRetryDelay)]_vars

\* C7: with timers eventually firing, every state whose status is
\* 'disconnected' or 'error' is followed by a state whose status is
\* 'initializing'.
C7_RecoversToInitializing ==
  (connectionStatus \in {"disconnected", "error"}) ~> (connectionStatus = "initializing")

\* Status is 'error' after a failed re-initialization, a retry is pending.
C7_Witness ==
  /\ connectionStatus = "error"
  /\ lastEvent.type = "init_error"
  /\ Len(clients) >= 2
  /\ PendingTimers > 0

\* C8 as stated: processing a disconnected event sets status
\* 'disconnected', records the reason as the last error and schedules
\* exactly one re-initialization with a backoff smaller than the one used
\* after an initialization error.
C8_DisconnectedRecordsReason ==
  [][lastEvent'.type = "disconnected" =>
       /\ connectionStatus' = "disconnected"
       /\ initializationError' = lastEvent'.arg
       /\ timers' = SetTimeout(DisconnectRetryDelay)
       /\ DisconnectRetryDelay < ErrorRetryDelay]_vars

\* C8 amended: processing a disconnected event sets status 'disconnected',
\* leaves the last error as it was (the reason is not recorded) and
\* schedules exactly one re-initialization with a backoff smaller than the
\* one used after an initialization error.
C8_DisconnectedKeepsError ==
  [][lastEvent'.type = "disconnected" =>
       /\ connectionStatus' = "disconnected"
       /\ initializationError' = initializationError
       /\ timers' = SetTimeout(DisconnectRetryDelay)
       /\ DisconnectRetryDelay < ErrorRetryDelay]_vars

\* A disconnected event was processed, its retry is pending and the last
\* error is not its reason.
C8_Witness ==
  /\ lastEvent.type = "disconnected"
  /\ connectionStatus = "disconnected"
  /\ timers[DisconnectRetryDelay] > 0
  /\ initializationError # lastEvent.arg

\* C9: a failing initialize() is absorbed: status becomes 'error', the
\* error is recorded, exactly one re-initialization is scheduled after the
\* long backoff, and the call of initializeWhatsAppClient completes
\* normally; no call ever rejects.
C9_InitErrorAbsorbed ==
  /\ [](\A i \in 1..Len(calls) : calls[i] # "rejected")
  /\ [][lastEvent'.type = "init_error" =>
          /\ connectionStatus' = "error"
          /\ initializationError' = lastEvent'.arg
          /\ timers' = SetTimeout(ErrorRetryDelay)
          /\ calls'[lastEvent'.client] = "fulfilled"]_vars

\* An initialize() has failed and its call has completed.
C9_Witness ==
  /\ lastEvent.type = "init_error"
  /\ calls[lastEvent.client] = "fulfilled"
  /\ clients[lastEvent.client] = "rejected"
  /\ timers[ErrorRetryDelay] > 0

\* C10: after a qr event or a ready event the last error is null, and
\* getStatus never reports status 'ready' together with an error.
C10_ErrorClearedOnRecovery ==
  /\ lastEvent.type \in {"qr", "ready"} => initializationError = Null
  /\ ~(GetStatus.status = "ready" /\ GetStatus.error # Null)

\* C11: no transition skips the intermediate states: status 'ready' is
\* seen only after a client was created (which sets 'initializing'), and no
\* step moves status from 'disconnected' (the status before the first
\* start included), 'auth_failure' or 'error' directly to 'ready'.
C11_NoSkippedStates ==
  /\ [](connectionStatus = "ready" => Len(clients) >= 1)
  /\ [][~(connectionStatus \in {"disconnected", "auth_failure", "error"}
          /\ connectionStatus' = "ready")]_vars

InvokedCallbacks == [i \in 1..Len(delivered.invoked) |-> delivered.invoked[i].cb]

\* C12: a ready event invokes every registered callback exactly once, in
\* registration order, with status already 'ready'; onClientReady appends
\* the callback and, when status is 'ready', invokes it at once (and only
\* it); registered callbacks are never dropped.
C12_ReadyCallbackDelivery ==
  [][ /\ lastEvent'.type = "ready" =>
           /\ InvokedCallbacks' = clientReadyCallbacks
           /\ clientReadyCallbacks' = clientReadyCallbacks
           /\ \A i \in 1..Len(delivered'.invoked) :
                /\ delivered'.invoked[i].status = "ready"
                /\ connectionStatus' = "ready"
      /\ lastEvent'.type = "onClientReady" =>
           /\ clientReadyCallbacks' = Append(clientReadyCallbacks, lastEvent'.arg)
           /\ InvokedCallbacks' =
                IF connectionStatus = "ready" THEN << lastEvent'.arg >> ELSE << >>
      /\ lastEvent'.type \notin {"ready", "onClientReady"} =>
           /\ clientReadyCallbacks' = clientReadyCallbacks
           /\ delivered' = delivered
    ]_vars

\* A ready event has invoked three callbacks, the second of which throws,
\* after a callback had been registered while status was 'ready'.
C12_Witness ==
  /\ lastEvent.type = "ready"
  /\ Len(delivered.invoked) >= 3
  /\ clientReadyCallbacks[2] = "throwing"
  /\ InvokedCallbacks = clientReadyCallbacks
  /\ prevApiKey # NullKey

\* C13: an exception thrown by a ready callback never escapes, neither from
\* the ready event handler nor from onClientReady, and the callbacks after
\* it are still invoked.
C13_CallbackErrorsContained ==
  /\ [](~delivered.escaped)
  /\ [][lastEvent'.type = "ready" => InvokedCallbacks' = clientReadyCallbacks]_vars

\* C14: after start, a qr event with payload "XYZ" and a ready event (as
\* after every ready event) status is 'ready', no QR payload is stored,
\* getQRCode yields nothing and the API key is a string of exactly 64
\* characters of the alphabet [0-9a-z].
C14_ReadyScenario ==
  lastEvent.type = "ready" =>
    /\ connectionStatus = "ready"
    /\ qrCodeData = Null
    /\ \A renders \in BOOLEAN : GetQRCode(renders) = Null
    /\ apiKey # NullKey
    /\ Len(apiKey) = 64
    /\ \A i \in 1..Len(apiKey) : apiKey[i] \in Alnum

\* The scenario: the first client's first ready event has cleared the
\* stored payload "XYZ"; nothing failed, no retry is pending.
C14_Witness ==
  /\ lastEvent.type = "ready"
  /\ lastEvent.arg = "XYZ"
  /\ Len(clients) = 1
  /\ prevApiKey = NullKey
  /\ initializationError = Null
  /\ PendingTimers = 0

\* C15: the API key is non-null exactly when a ready event has been
\* processed, and once set it is never reset to null.
C15_KeyIffEverReady ==
  /\ [](apiKey # NullKey <=> everReady)
  /\ [][apiKey # NullKey => apiKey' # NullKey]_vars

\* A key issued by a ready event is still there while a later client
\* initializes.
C15_Witness ==
  /\ everReady
  /\ apiKey # NullKey
  /\ connectionStatus = "initializing"
  /\ Len(clients) >= 2

(* ---------------------------------------------------------------------- *)
(* C16 - C20: getStatus and the fetch chain of server.js                   *)
(* ---------------------------------------------------------------------- *)

\* A step that answers a GET /status request.
AnswersStatus == req' # req /\ req'.endpoint = "status"

\* C16: getStatus is a pure read: a GET /status request, which calls it,
\* leaves status, QR payload, error, API key, client handle, registered
\* callbacks and pending timers unchanged, and its answer carries the
\* current status and error.
C16_GetStatusPureRead ==
  [][AnswersStatus =>
       /\ UNCHANGED << connectionStatus, qrCodeData, initializationError, apiKey,
                       whatsappClient, serverClient, clientReadyCallbacks, timers,
                       clients, calls, internalChats >>
       /\ req'.code = 200
       /\ req'.body.status = connectionStatus
       /\ req'.body.error = initializationError]_vars

\* A GET /status request has been answered with a stored error.
C16_Witness ==
  /\ req.endpoint = "status" /\ req.code = 200
  /\ req.body.status = "auth_failure" /\ req.body.error # Null

\* The chain of the request has gone through every strategy without result.
Exhausted == req.chain.state = "fulfilled" /\ req.chain.source = "fallback"

IsMockChat(chat) == \E now \in ClockSeconds : chat = MockChat(now)

StrategyOrder == << "getChats", "_chats", "store.getChats", "pupPage.evaluate" >>

StrategyIndex(name) == CHOOSE k \in 1..Len(StrategyOrder) : StrategyOrder[k] = name

InStrategyOrder(invoked) ==
  \A i, j \in 1..Len(invoked) : i < j => StrategyIndex(invoked[i]) < StrategyIndex(invoked[j])

\* The chain of a /api/chats request has returned the result of a strategy.
FromStrategy ==
  /\ req.endpoint = "chats" /\ req.chain.state = "fulfilled"
  /\ req.chain.source # "fallback"

\* C18: the chain of /api/chats returns the result of the first strategy,
\* in the order getChats, _chats, store.getChats, pupPage.evaluate, that
\* yields a non-empty result: no later strategy is invoked, and when the
\* chain wins the race the answer is 200 with the normalized items of that
\* result, as many and in the same order.
C18_FirstSuccessfulStrategyAnswers ==
  FromStrategy =>
    /\ InStrategyOrder(req.invoked)
    /\ req.invoked[Len(req.invoked)] = req.chain.source
    /\ Len(req.chain.value) > 0
    /\ req.race = "fulfilled" =>
         /\ req.code = 200
         /\ Len(req.body.chats) = Len(req.chain.value)
         /\ req.body.chats = FormatChats(req.chain.value)

\* C19: a timer that expires while the chain is still pending makes the
\* request fail with the timeout message (500), and nothing else does; an
\* exhausted chain of /api/chats that wins the race is answered 200 with
\* the placeholder; a chain that completes after the timeout changes
\* nothing in the answer.
C19_TimeoutDistinctFromExhausted ==
  /\ (req.timer = "fired" /\ req.chain.state = "pending") => req.race = "rejected"
  /\ req.race = "rejected" <=> (req.code = 500 /\ req.body = ErrorBody(TimeoutMessage))
  /\ req.race = "rejected" => req.timer = "fired"
  /\ (req.endpoint = "chats" /\ Exhausted /\ req.race = "fulfilled") =>
       /\ req.code = 200
       /\ req.body.success
       /\ \E now \in ClockSeconds : req.body.chats = << FormatChat(MockChat(now)) >>

\* The timer of a /api/chats request has expired first and its chain has
\* run out of strategies afterwards: the answer is the timeout.
C19_Witness ==
  /\ req.endpoint = "chats" /\ Exhausted /\ req.race = "rejected"
  /\ req.body = ErrorBody(TimeoutMessage)

\* C20: a /api/chats request that has started its chain (status ready,
\* handle non-null) is answered with an error only when its timer expires.
C20_OnlyTimeoutFails ==
  (req.endpoint = "chats" /\ req.timer # "none" /\ req.code >= 400) =>
    req.body = ErrorBody(TimeoutMessage)

(* ---------------------------------------------------------------------- *)
(* C21 - C30                                                               *)
(* ---------------------------------------------------------------------- *)

\* A missing timestamp counts as 0.
TimeOrZero(chat) == IF chat.timestamp = Absent THEN 0 ELSE Get(chat.timestamp)

Occurrences(chats, chat) == Cardinality({i \in 1..Len(chats) : chats[i] = chat})

IsPermutation(a, b) ==
  /\ Len(a) = Len(b)
  /\ \A i \in 1..Len(a) : Occurrences(a, a[i]) = Occurrences(b, a[i])

\* The chain of a /api/recent-message request has returned a non-empty
\* collection.
RecentRetrieved ==
  /\ req.endpoint = "recent" /\ req.chain.state = "fulfilled"
  /\ Len(req.chain.raw) > 0

\* C22: the most recent selection sorts the retrieved collection by
\* timestamp, newest first, a missing timestamp counting as 0 (so no record
\* with a timestamp greater than 0 comes after a record without one); the
\* first element after sorting has a maximal timestamp and is the chat that
\* is looked up and whose messages are fetched.
C22_MostRecentSelection ==
  RecentRetrieved =>
    LET sorted == req.chain.value
    IN /\ IsPermutation(req.chain.raw, sorted)
       /\ \A i, j \in 1..Len(sorted) : i < j => TimeOrZero(sorted[i]) >= TimeOrZero(sorted[j])
       /\ \A i, j \in 1..Len(sorted) :
            (i < j /\ sorted[i].timestamp = Absent) => TimeOrZero(sorted[j]) = 0
       /\ \A i \in 1..Len(req.chain.raw) :
            TimeOrZero(req.chain.raw[i]) <= TimeOrZero(sorted[1])
       /\ req.pc \in {"getChatById", "fetchMessages"} => HasSerializedId(sorted[1])
       /\ (req.body.kind = "recent" /\ req.body.chatId # Absent) =>
            req.body.chatId = Get(sorted[1].id).serialized

\* A /api/recent-message request has reordered the collection it retrieved
\* and has answered with a message of the newest chat.
C22_Witness ==
  /\ RecentRetrieved /\ req.chain.raw # req.chain.value
  /\ req.code = 200 /\ req.body.result = "success"
  /\ req.body.chatId = Some("c1")

\* C23: no step of a fetch request changes the client handle or the
\* collection the handle owns, its order included.
C23_HandleReadOnly ==
  [][req' # req => UNCHANGED << internalChats, serverClient, whatsappClient >>]_vars

Last(seq) == seq[Len(seq)]

\* The fetch chain of the request has been started.
ChainStarted == req.endpoint \in {"chats", "recent"} /\ req.timer # "none"

\* The strategies among the operations a request has invoked.
StrategiesInvoked == SelectSeq(req.invoked, LAMBDA op : op \in {StrategyOrder[k] : k \in 1..Len(StrategyOrder)})

\* C29: the strategies of a request run one after another, in the fixed
\* order: the strategy in flight is the last one invoked, every earlier one
\* has finished, and while the first strategy has not returned no other
\* one is invoked; a request whose chain is still pending when the timer
\* expires ends in the timeout answer.
C29_StrategiesSequential ==
  ChainStarted =>
    /\ InStrategyOrder(StrategiesInvoked)
    /\ req.pc = "primary" => req.invoked = << "getChats" >>
    /\ req.pc = "store" => Last(req.invoked) = "store.getChats"
    /\ req.pc = "evaluate" => Last(req.invoked) = "pupPage.evaluate"
    /\ (req.chain.state = "pending") = (req.pc \in {"primary", "store", "evaluate"})
    /\ (req.chain.state = "pending" /\ req.timer = "fired") =>
         (req.code = 500 /\ req.body = ErrorBody(TimeoutMessage))

\* The first strategy of a request has not returned when the timer expired:
\* no other strategy has been invoked and the answer is the timeout.
C29_Witness ==
  /\ ChainStarted /\ req.pc = "primary" /\ req.timer = "fired"
  /\ req.invoked = << "getChats" >> /\ req.code = 500

\* C27: a request during whose handling an exception has been raised (a
\* swallowed strategy failure apart) is answered with a 500 response.
C27_ExceptionsBecome500 ==
  (req.raised /\ req.writes = 1) => req.code = 500

\* C30: in a 200 answer of /api/chats the timestamp of an item is null if
\* and only if the record has no timestamp, and a present timestamp t, 0
\* included, is mapped to the instant t * 1000 ms.
C30_TimestampNullIffAbsent ==
  (req.endpoint = "chats" /\ req.code = 200) =>
    \A i \in 1..Len(req.chain.value) :
      LET raw == req.chain.value[i]
          out == req.body.chats[i]
      IN /\ (out.timestamp = Absent) <=> (raw.timestamp = Absent)
         /\ raw.timestamp # Absent =>
              out.timestamp = Some(ToISOString(Get(raw.timestamp) * MillisPerSecond))

\* The data endpoints of server.js.
DataEndpoints == {"chats", "recent", "messages", "send"}

\* A step that takes a new request to one of the endpoints: only the steps
\* that take a request change req once the previous request is answered.
TakesRequest(endpoints) ==
  Answered /\ req' # req /\ req'.endpoint \in endpoints

\* C24: in every status other than ready a request to a data endpoint,
\* whatever credential it carries, is answered 503 at once, and no operation
\* of the client is invoked for it.
C24_NotReadyAnswered503 ==
  [][(connectionStatus # "ready" /\ TakesRequest(DataEndpoints)) =>
       /\ req'.code = 503 /\ req'.writes = 1
       /\ req'.body = NotReadyBody(connectionStatus)
       /\ req'.invoked = << >> /\ req'.timer = "none"]_vars

\* A /api/send request carrying the right key has been answered 503 while a
\* QR code was pending.
C24_Witness ==
  /\ connectionStatus = "qr_received"
  /\ req.endpoint = "send" /\ req.code = 503 /\ req.invoked = << >>

\* The endpoints of server.js that compare a credential, and those of them
\* that read data.
CheckedEndpoints == {"api status", "chats", "recent", "messages", "send"}
ReadEndpoints == {"api status", "chats", "recent", "messages"}

\* A step that takes a request carrying creds to a read endpoint.
ReadRequest(creds, chatId) ==
  \/ req'.endpoint = "api status" /\ \E now \in ClockSeconds : ApiStatusRequest(creds, now)
  \/ req'.endpoint = "chats" /\ ChatsRequest(ProvidedApiKey(creds))
  \/ req'.endpoint = "recent" /\ RecentRequest(ProvidedApiKey(creds))
  \/ req'.endpoint = "messages" /\ MessagesRequest(creds, chatId)

\* The credentials a request presents: the query parameter and the two
\* headers, a "Bearer " prefix removed.
Presented(creds) ==
  {creds.query, RemoveBearer(creds.xApiKey), RemoveBearer(creds.authorization)} \ {NullKey}

\* The one credential a read endpoint compares: the query parameter if there
\* is one, else the x-api-key header if there is one, else the authorization
\* header, a "Bearer " prefix removed.
Compared(creds) ==
  IF creds.query # NullKey THEN creds.query
  ELSE IF creds.xApiKey # NullKey THEN RemoveBearer(creds.xApiKey)
  ELSE RemoveBearer(creds.authorization)

\* The one credential /api/send compares: the x-api-key header if there is
\* one, else the authorization header, a "Bearer " prefix removed.
ComparedBySend(creds) ==
  IF creds.xApiKey # NullKey THEN RemoveBearer(creds.xApiKey)
  ELSE RemoveBearer(creds.authorization)

\* The answer to a request whose credential is rejected.
Rejected(r, message) ==
  /\ r.code = 401 /\ r.writes = 1 /\ r.body = ErrorBody(message)
  /\ r.invoked = << >> /\ r.timer = "none"

Malformed(body) ==
  ~body.json \/ ~TruthyString(body.to) \/ ~TruthyString(body.message)

C21_FetchTerminates ==
  \A e \in {"chats", "messages"} :
    (req.endpoint = e /\ req.writes = 0) ~> (req.endpoint = e /\ req.writes > 0)

\* A step that takes a /health request of one of the three servers.
HealthStep(now) ==
  \/ HealthRequest(now)
  \/ MinimalHealthRequest(now)
  \/ ExpressHealthRequest(now)

\* A /health request is answered at once with 200, status ok and the
\* current time, and leaves the session state of both servers as it is.
HealthAnswer(now) ==
  /\ req'.code = 200 /\ req'.writes = 1 /\ req'.pc = "idle"
  /\ req'.body.status = "ok"
  /\ req'.body.timestamp = ToISOString(now * MillisPerSecond)
  /\ UNCHANGED << integration, state >>

RacedEndpoints == {"chats", "recent"}

\* A step that takes a new request in place of the one in req.
NewRequest ==
  \/ StatusRequest
  \/ \E provided \in ProvidedKeys : ChatsRequest(provided) \/ RecentRequest(provided)

\* C31: a /api/chats or /api/recent-message request is answered, and
\* answered once: after its response is written, no later step of the same
\* request (a late chain result, a late timer) writes again or changes what
\* was written.
C31_ExactlyOneResponse ==
  /\ [][(req.endpoint \in RacedEndpoints /\ req.writes = 1 /\ req' # req /\ ~NewRequest) =>
          /\ req'.writes = 1 /\ req'.code = req.code /\ req'.body = req.body
          /\ req'.race = req.race]_vars
  /\ [](req.endpoint \in RacedEndpoints => req.writes <= 1)
  /\ \A e \in RacedEndpoints :
       (req.endpoint = e /\ req.writes = 0) ~> (req.endpoint = e /\ req.writes = 1)

\* The timer of a /api/chats request has answered 500 and the chain has
\* returned chats after that.
C31_Witness ==
  /\ req.endpoint = "chats" /\ req.timer = "fired" /\ req.race = "rejected"
  /\ req.chain.state = "fulfilled" /\ req.pc = "done"
  /\ req.writes = 1 /\ req.code = 500

\* C32: events of a replaced client do not affect the session: right after
\* a ready event the current client, which is the handle given to the
\* callbacks and kept by server.js, is the client that emitted the event.
C32_ReadyHandleIsEmitter ==
  (connectionStatus = "ready" /\ lastEvent.type = "ready") =>
    /\ whatsappClient = lastEvent.client
    /\ serverClient = lastEvent.client

\* C33: getStatus() reports a key if and only if status is ready: in
\* status ready a key has been generated, in every other status the key is
\* withheld.
C33_KeyReportedIffReady ==
  (GetStatus.apiKey # NullKey) <=> (GetStatus.status = "ready")

\* A key was generated, status is not ready any more and getStatus()
\* withholds the key.
C33_Witness ==
  /\ apiKey # NullKey /\ connectionStatus = "disconnected"
  /\ GetStatus.apiKey = NullKey

\* C34: whenever status is ready the client reference of server.js is set
\* and is the current client of the integration module, so a /api/chats or
\* /api/recent-message request arriving in any reachable state is never
\* answered 500 "WhatsApp client not properly initialized".
C34_ServerHandleCurrent ==
  /\ connectionStatus = "ready" =>
       (serverClient # NoClient /\ serverClient = whatsappClient)
  /\ \A endpoint \in RacedEndpoints, provided \in ProvidedKeys :
       StartFetch(endpoint, provided).body # ErrorBody(NoClientMessage)

\* Status is ready again after the client was replaced, and server.js holds
\* the second client.
C34_Witness ==
  /\ connectionStatus = "ready" /\ Len(clients) = 2
  /\ serverClient = 2 /\ whatsappClient = 2

\* C35: when the body of an accepted /api/send request ends, sendMessage
\* of the client is invoked only if status is ready at that moment; with
\* any other status (an event was processed since the request was accepted)
\* nothing is invoked and the request is answered with an error.
C35_SendOnlyWhenReady ==
  [][\A body \in SendBodies :
       SendBodyEnds(body) =>
         /\ req'.invoked # << >> => connectionStatus = "ready"
         /\ connectionStatus # "ready" =>
              /\ req'.invoked = << >> /\ req'.writes = 1
              /\ req'.code \in {400, 500}
         /\ (connectionStatus # "ready" /\ ~Malformed(body)) =>
              req'.body = ErrorBody(CannotSendMessage)]_vars

\* A /api/send request accepted in status ready has been answered 500
\* because the client had disconnected when its body ended.
C35_Witness ==
  /\ connectionStatus = "disconnected"
  /\ req.endpoint = "send" /\ req.code = 500
  /\ req.body = ErrorBody(CannotSendMessage) /\ req.invoked = << >>

Reports == req.endpoint \in {"express health", "express status"}

\* C37: /status and /health of the Express server report not_started only
\* when initialization has never been started, and /status never reports
\* ready together with an error.
C37_ReportedStatusConsistent ==
  Reports =>
    /\ req.body.whatsappStarted =>
         req.body.whatsapp \in {"initializing", "ready", "error"}
    /\ (req.endpoint = "express status" /\ req.body.whatsapp = "ready") =>
         req.body.error = Null

\* A /start-whatsapp request after the first changes nothing of the state
\* object and creates no client.
C38_LaterStartsChangeNothing ==
  [][(StartWhatsApp /\ state.whatsappInitStarted) =>
       /\ state' = state
       /\ clients' = clients
       /\ req'.body = AlreadyStartedBody(state)]_vars

\* Once initialize() has failed, every report of /status and /health says
\* error.
C38_ErrorStaysReported ==
  [][(state.initialize = "rejected" /\ req' # req /\ Reports') =>
       req'.body.whatsapp = "error"]_vars

\* C38: /start-whatsapp launches initialization at most once, later calls
\* (also after a failure or a disconnection) leave the state unchanged, and
\* after an initialization failure the reported status stays error forever.
C38_StartsOnceErrorStays ==
  /\ C38_LaterStartsChangeNothing
  /\ C38_ErrorStaysReported

\* C39: in the REST revision, whenever state.clientReady is true state.client
\* is a client, and GET /api/chats is never answered with 'WhatsApp client
\* not available' while the client is ready.
C39_ReadyHandleAvailable ==
  /\ state.clientReady => state.client # NoClient
  /\ req.endpoint = "rest chats" => req.body # ClientNotAvailableBody

====
